---- MODULE Spec2Model ----
(***************************************************************************)
(* Face-recognition door lock: the capture loop of main.py, the relay of   *)
(* hardware.py, the identity store of face_recognition_utils.py and the    *)
(* approval workflow of telegram_bot.py.                                   *)
(*                                                                         *)
(* Two specifications share the module's variables:                        *)
(*   Spec     the main thread (start-up, capture loop, shutdown) with the  *)
(*            unlock threads it starts;                                    *)
(*   BotSpec  the alert threads, the expiry sweeps and the callback        *)
(*            listener of telegram_bot.py.                                 *)
(* Times of the capture loop are counted in tenths of a second.            *)
(***************************************************************************)
EXTENDS Integers, Sequences, FiniteSets, TLC

(* ------------------------------ bounds -------------------------------- *)
\* the capture loop stops reading frames after this many tenths of a second
MaxTime == 42
\* a camera.read() takes between 0 and MaxJitter tenths of a second
MaxJitter == 1
\* threads the capture loop may start (unlock and alert threads together)
MaxSpawns == 2
\* largest encoding value; an encoding is a number 0..MaxEnc
MaxEnc == 2
\* identities the store file may hold at start-up
MaxStored == 1
\* send_unknown_face_alert threads
MaxAlerts == 2
\* button presses the listener receives
MaxCallbacks == 1
\* int(time.time()) returns values in 0..MaxClock
MaxClock == 1

(* ------------------------- program constants -------------------------- *)
\* main.py:105  time.sleep(0.1)
gate_sleep == 1
\* a cooldown period as short as the gate's sleep
cooldown_period_short == gate_sleep
\* main.py:93   cooldown_period = 2 (seconds)
cooldown_period == 20
\* main.py:113  time.sleep(0.5)
no_face_sleep == 5
\* main.py:100  time.sleep(1)
camera_error_sleep == 10
\* main.py:36   time.sleep(1) between camera attempts
camera_retry_sleep == 10
\* main.py:24   range(3)
CAMERA_ATTEMPTS == 3
\* config.py:9  UNLOCK_DURATION = 10 (seconds)
UNLOCK_DURATION == 100
\* config.py:12 FACE_CONFIDENCE_THRESHOLD = 0.6, in tenths
FACE_CONFIDENCE_THRESHOLD == 6
\* telegram_bot.py:24
RETRY_ATTEMPTS == 3
\* telegram_bot.py:25 (seconds)
RETRY_DELAY == 2

\* Python's None, as a name and as a face location
None == "None"
NoLocation == <<>>
\* time.time() when the program starts: far beyond one cooldown period
StartTime == cooldown_period + 1

(* ------------------------------ values -------------------------------- *)
Encodings == 0..MaxEnc
\* face_recognition.face_distance, in tenths: 0, 0.6, 1.2, ...
face_distance(a, b) == FACE_CONFIDENCE_THRESHOLD * (IF a < b THEN b - a ELSE a - b)
\* float('inf'): above every distance
Infinity == FACE_CONFIDENCE_THRESHOLD * MaxEnc + 1

\* a numpy array holding an encoding, and a Python list
ndarray(e) == [type |-> "ndarray", val |-> e]
pylist(s) == [type |-> "list", items |-> s]
isinstance_ndarray(v) == v.type = "ndarray"

\* face regions (top, right, bottom, left)
SmallFace == <<0, 2, 2, 0>>
LargeFace == <<1, 4, 4, 1>>
FaceLists == {<<>>, <<SmallFace>>, <<SmallFace, LargeFace>>}

\* a valid frame: the regions the detector finds in it and what the encoder
\* returns for the largest one (encodable = FALSE: extraction fails)
Frames ==
    [faces : {<<>>}, encodable : {FALSE}, enc : {0}]
    \cup [faces : FaceLists \ {<<>>}, encodable : {FALSE}, enc : {0}]
    \cup [faces : FaceLists \ {<<>>}, encodable : {TRUE}, enc : Encodings]

\* f"Person_{int(time.time())}", and the names stored by earlier runs
PersonName(i) == "Person_" \o ToString(i)

\* load_face_database when no file exists
NewDatabase == [encodings |-> <<>>, names |-> <<>>]

\* the stores load_face_database can return: a new one, or what earlier
\* runs pickled after add_face_to_database
StoredDatabases ==
    UNION {[encodings : [1..n -> Encodings], names : {[i \in 1..n |-> PersonName(i)]}]
           : n \in 0..MaxStored}

(* ----------------------------- variables ------------------------------ *)
VARIABLES
    pc,                  \* position of the main thread
    fatal,               \* which fatal condition ended the try block
    attempt,             \* initialize_camera: attempt
    camera,              \* main's local camera: "unbound", "open", "released"
    gpio,                \* RPi.GPIO: "unset", "ready", "cleaned"
    relay,               \* level last written to RELAY_PIN: "Locked" (HIGH), "Unlocked" (LOW)
    updater,             \* telegram_bot.updater: "none", "polling", "stopped"
    shutdown_called,     \* telegram_bot.shutdown_bot() has run
    now,                 \* time.time()
    last_detection_time, \* main's local
    frame,               \* the frame camera.read() returned last
    face_location, name, \* what process_frame returned
    database,            \* the identity store in memory
    spawns,              \* threads started by the loop: [kind, at, outcome]
    upc,                 \* per unlock_door call: position
    uduration,           \* per unlock_door call: its duration argument
    urelocked,           \* per unlock_door call: it wrote HIGH after its hold
    bot,                 \* telegram_bot.bot is set
    clock,               \* the last value int(time.time()) returned in telegram_bot
    face_path_cache,     \* face_id -> face_path
    disk,                \* the store pickled at FACE_DATABASE_PATH
    files,               \* per alert: the image main wrote for it
    apc,                 \* per send_unknown_face_alert call: position
    aid,                 \* its face_id
    aattempt,            \* its loop variable attempt
    asuccess,            \* its local success
    alast,               \* the outcome of its last bot.send_photo
    aphoto,              \* bot.send_photo calls it has made
    afallback,           \* bot.send_message calls it has made
    apopped,             \* its failure cleanup ran and left the cache without its id
    aret,                \* its return value
    spc,                 \* per alert: delayed_face_cache_cleanup: "none", "sleeping", "done"
    sremoved,            \* the sweep found the id and removed it
    cpc,                 \* position of the callback the listener is handling
    caction, cid,        \* its payload
    cpath,               \* its local face_path
    cname,               \* process_allow_always's local name, once it is set
    creport,             \* the texts it has passed to safe_edit_caption
    csave,               \* add_face_to_database's write in it: "none", "saved", "failed"
    cunlocks,            \* hardware.unlock_door calls it has made
    cswept,              \* a sweep removed its id after its lookup found it
    cpopped,             \* its pop ran and left the cache without its id
    cstore,              \* the store, in memory and on disk, when it arrived
    ncallbacks           \* callbacks received so far

mainVars == <<pc, fatal, attempt, camera, updater, shutdown_called, bot, now, last_detection_time,
              frame, face_location, name, spawns>>
alertVars == <<files, apc, aid, aattempt, asuccess, alast, aphoto, afallback,
               apopped, aret, spc, sremoved>>
callbackVars == <<cpc, caction, cid, cpath, cname, creport, csave, cunlocks, cswept, cpopped,
                  cstore, ncallbacks>>
botVars == <<clock, face_path_cache, disk, alertVars, callbackVars>>

vars == <<mainVars, gpio, relay, database, upc, uduration, urelocked, botVars>>

\* unlock_door calls: 0 is the call of the callback listener, the others are
\* the threads of the capture loop
Listener == 0
LoopCallers == 1..MaxSpawns
Callers == {Listener} \cup LoopCallers
Alerts == 1..MaxAlerts

(* --------------------------- process_frame ---------------------------- *)
\* (rect[2] - rect[0]) * (rect[1] - rect[3])
Area(rect) == (rect[3] - rect[1]) * (rect[2] - rect[4])

\* Python's max(seq, key=Area): the first element of maximal key
RECURSIVE PyMaxFrom(_, _, _)
PyMaxFrom(seq, i, best) ==
    IF i > Len(seq) THEN best
    ELSE PyMaxFrom(seq, i + 1, IF Area(seq[i]) > Area(best) THEN seq[i] ELSE best)
PyMax(seq) == PyMaxFrom(seq, 2, seq[1])

\* database.items() of the dict main got from load_face_database
DatabaseItems(db) ==
    << <<"encodings", pylist([i \in 1..Len(db.encodings) |-> ndarray(db.encodings[i])])>>,
       <<"names", pylist(db.names)>> >>

\* the loop of main.py:60-70 over items[i..]; st = [name, best]
RECURSIVE MatchLoop(_, _, _, _)
MatchLoop(items, i, face_encoding, st) ==
    IF i > Len(items) THEN st
    ELSE LET person_name == items[i][1]
             known_encoding == items[i][2]
         IN  IF ~isinstance_ndarray(known_encoding)
             THEN MatchLoop(items, i + 1, face_encoding, st)
             ELSE LET d == face_distance(known_encoding.val, face_encoding)
                  IN  IF d < st.best /\ d < FACE_CONFIDENCE_THRESHOLD
                      THEN MatchLoop(items, i + 1, face_encoding,
                                     [name |-> person_name, best |-> d])
                      ELSE MatchLoop(items, i + 1, face_encoding, st)

\* process_frame(frame, database): <<face_location, name>>
process_frame(fr, db) ==
    IF fr.faces = <<>> THEN <<NoLocation, None>>
    ELSE LET largest_face == PyMax(fr.faces)
         IN  IF ~fr.encodable THEN <<largest_face, None>>
             ELSE <<largest_face,
                    MatchLoop(DatabaseItems(db), 1, fr.enc,
                              [name |-> "Unknown", best |-> Infinity]).name>>

\* main.py:111-131: what the loop does with process_frame's result
Dispatch(loc, nm) ==
    IF loc = NoLocation THEN "none"
    ELSE IF nm # "Unknown" THEN "unlock"
    ELSE "alert"

(* ------------------------------ hardware ------------------------------ *)
\* GPIO.output(RELAY_PIN, level): raises RuntimeError unless the pin is set up
GpioOutputOk(g) == g = "ready"

\* positions of an unlock_door call: "none" (not called), "start", "hold"
\* (inside time.sleep), "done" (returned), "raised_low" / "raised_high" (the
\* first / second GPIO.output raised), "killed_start" / "killed_hold" (the
\* interpreter exited while the daemon thread was there)
Raised == {"raised_low", "raised_high"}

\* unlock_door, first half: GPIO.output(LOW), then the hold begins
UnlockLow(u) ==
    /\ upc[u] = "start"
    /\ IF GpioOutputOk(gpio)
       THEN /\ relay' = "Unlocked"
            /\ upc' = [upc EXCEPT ![u] = "hold"]
       ELSE /\ relay' = relay
            /\ upc' = [upc EXCEPT ![u] = "raised_low"]
    /\ UNCHANGED <<urelocked, uduration, gpio, database, mainVars, botVars>>

\* unlock_door, second half: time.sleep(duration) is over, GPIO.output(HIGH)
UnlockHigh(u) ==
    /\ upc[u] = "hold"
    /\ IF GpioOutputOk(gpio)
       THEN /\ relay' = "Locked"
            /\ upc' = [upc EXCEPT ![u] = "done"]
            /\ urelocked' = [urelocked EXCEPT ![u] = TRUE]
       ELSE /\ relay' = relay
            /\ upc' = [upc EXCEPT ![u] = "raised_high"]
            /\ urelocked' = urelocked
    /\ UNCHANGED <<uduration, gpio, database, mainVars, botVars>>

(* ------------------------------- main --------------------------------- *)
InTry == pc \in {"setup_gpio", "init_camera", "init_bot", "read", "gate", "dispatch"}

\* hardware.setup_gpio()
SetupGpio ==
    /\ pc = "setup_gpio"
    /\ gpio' = "ready"
    /\ relay' = "Locked"
    /\ pc' = "init_camera"
    /\ UNCHANGED <<fatal, attempt, camera, updater, bot, now, last_detection_time, frame,
                   face_location, name, database, spawns, upc, uduration, urelocked, shutdown_called, botVars>>

\* initialize_camera: one attempt of the for loop
CameraAttempt ==
    /\ pc = "init_camera"
    /\ attempt < CAMERA_ATTEMPTS
    /\ \E opened \in BOOLEAN :
         IF opened
         THEN /\ camera' = "open"
              /\ pc' = "init_bot"
              /\ UNCHANGED <<attempt, now>>
         ELSE /\ attempt' = attempt + 1
              /\ now' = now + camera_retry_sleep
              /\ UNCHANGED <<camera, pc>>
    /\ UNCHANGED <<fatal, gpio, relay, updater, bot, last_detection_time, frame,
                   face_location, name, database, spawns, upc, uduration, urelocked, shutdown_called, botVars>>

\* initialize_camera: raise Exception("Could not open camera ..."), caught at main.py:137
CameraExhausted ==
    /\ pc = "init_camera"
    /\ attempt = CAMERA_ATTEMPTS
    /\ fatal' = "camera"
    /\ pc' = "finally"
    /\ UNCHANGED <<attempt, camera, gpio, relay, updater, bot, now, last_detection_time, frame,
                   face_location, name, database, spawns, upc, uduration, urelocked, shutdown_called, botVars>>

\* what initialize_bot can leave behind: Bot() raised; get_me() raised, so no
\* polling thread was started; the listener polls
BotStates == {"none", "no_polling", "polling"}

\* telegram_bot.initialize_bot(database); main ignores its result
InitBot ==
    /\ pc = "init_bot"
    /\ \E b \in BotStates :
         /\ bot' = (b # "none")
         /\ updater' = IF b = "polling" THEN "polling" ELSE "none"
    /\ pc' = "read"
    /\ UNCHANGED <<fatal, attempt, camera, gpio, relay, now, last_detection_time, frame,
                   face_location, name, database, spawns, upc, uduration, urelocked, shutdown_called, botVars>>

\* camera.read() returns a valid frame
ReadFrame ==
    /\ pc = "read"
    /\ now <= MaxTime
    /\ Len(spawns) < MaxSpawns
    /\ \E f \in Frames, j \in 0..MaxJitter :
         /\ frame' = f
         /\ now' = now + j
    /\ pc' = "gate"
    /\ UNCHANGED <<fatal, attempt, camera, gpio, relay, updater, bot, last_detection_time,
                   face_location, name, database, spawns, upc, uduration, urelocked, shutdown_called, botVars>>

\* camera.read() fails: log, sleep(1), continue
ReadBad ==
    /\ pc = "read"
    /\ now <= MaxTime
    /\ now' = now + camera_error_sleep
    /\ UNCHANGED <<pc, fatal, attempt, camera, gpio, relay, updater, bot, last_detection_time, frame,
                   face_location, name, database, spawns, upc, uduration, urelocked, shutdown_called, botVars>>

\* main.py:104: the cooldown gate
InCooldown(current_time, last) == current_time - last < cooldown_period

\* main.py:103-106: the frame is inside the cooldown window
CooldownDrop ==
    /\ pc = "gate"
    /\ InCooldown(now, last_detection_time)
    /\ now' = now + gate_sleep
    /\ pc' = "read"
    /\ UNCHANGED <<fatal, attempt, camera, gpio, relay, updater, bot, last_detection_time, frame,
                   face_location, name, database, spawns, upc, uduration, urelocked, shutdown_called, botVars>>

\* main.py:108-109
Detect ==
    /\ pc = "gate"
    /\ ~InCooldown(now, last_detection_time)
    /\ last_detection_time' = now
    /\ face_location' = process_frame(frame, database)[1]
    /\ name' = process_frame(frame, database)[2]
    /\ pc' = "dispatch"
    /\ UNCHANGED <<fatal, attempt, camera, gpio, relay, updater, bot, now, frame,
                   database, spawns, upc, uduration, urelocked, shutdown_called, botVars>>

\* main.py:111-114
NoFace ==
    /\ pc = "dispatch"
    /\ Dispatch(face_location, name) = "none"
    /\ now' = now + no_face_sleep
    /\ pc' = "read"
    /\ UNCHANGED <<fatal, attempt, camera, gpio, relay, updater, bot, last_detection_time, frame,
                   face_location, name, database, spawns, upc, uduration, urelocked, shutdown_called, botVars>>

\* what the cycle found, for the record of the threads started
Outcome(fr, nm) ==
    IF ~fr.encodable THEN "undecodable"
    ELSE IF nm = "Unknown" THEN "unmatched" ELSE "matched"

\* a loop that calls hardware.unlock_door itself and goes on when it is over
StartUnlockInline ==
    /\ pc = "dispatch"
    /\ Dispatch(face_location, name) = "unlock"
    /\ LET u == Len(spawns) + 1
       IN  IF upc[u] = "none"
           THEN /\ upc' = [upc EXCEPT ![u] = "start"]
                /\ uduration' = [uduration EXCEPT ![u] = UNLOCK_DURATION]
                /\ UNCHANGED <<spawns, now, pc>>
           ELSE /\ upc[u] \in {"done"} \cup Raised
                /\ spawns' = Append(spawns, [kind |-> "unlock", at |-> last_detection_time,
                                             outcome |-> Outcome(frame, name)])
                /\ now' = now + cooldown_period
                /\ pc' = "read"
                /\ UNCHANGED <<upc, uduration>>
    /\ UNCHANGED <<fatal, attempt, camera, gpio, relay, updater, bot, last_detection_time, frame,
                   face_location, name, database, urelocked, shutdown_called, botVars>>

\* main.py:118-120 and 133
StartUnlock ==
    /\ pc = "dispatch"
    /\ Dispatch(face_location, name) = "unlock"
    /\ LET u == Len(spawns) + 1
       IN  /\ upc' = [upc EXCEPT ![u] = "start"]
           /\ uduration' = [uduration EXCEPT ![u] = UNLOCK_DURATION]
    /\ spawns' = Append(spawns, [kind |-> "unlock", at |-> last_detection_time,
                                 outcome |-> Outcome(frame, name)])
    /\ now' = now + cooldown_period
    /\ pc' = "read"
    /\ UNCHANGED <<fatal, attempt, camera, gpio, relay, updater, bot, last_detection_time, frame,
                   face_location, name, database, urelocked, shutdown_called, botVars>>

\* main.py:121-131 and 133
StartAlert ==
    /\ pc = "dispatch"
    /\ Dispatch(face_location, name) = "alert"
    /\ spawns' = Append(spawns, [kind |-> "alert", at |-> last_detection_time,
                                 outcome |-> Outcome(frame, name)])
    /\ now' = now + cooldown_period
    /\ pc' = "read"
    /\ UNCHANGED <<fatal, attempt, camera, gpio, relay, updater, bot, last_detection_time, frame,
                   face_location, name, database, upc, uduration, urelocked, shutdown_called, botVars>>

\* an exception inside the loop body (camera.read, cv2, face_recognition), main.py:137
LoopException ==
    /\ pc \in {"read", "gate", "dispatch"}
    /\ fatal' = "exception"
    /\ pc' = "finally"
    /\ UNCHANGED <<attempt, camera, gpio, relay, updater, bot, now, last_detection_time, frame,
                   face_location, name, database, spawns, upc, uduration, urelocked, shutdown_called, botVars>>

\* Ctrl+C while the main thread is inside the try block, main.py:135
Interrupt ==
    /\ InTry
    /\ fatal' = "interrupt"
    /\ pc' = "finally"
    /\ UNCHANGED <<attempt, camera, gpio, relay, updater, bot, now, last_detection_time, frame,
                   face_location, name, database, spawns, upc, uduration, urelocked, shutdown_called, botVars>>

\* main.py:140-141: `camera` is unbound unless initialize_camera returned:
\* the test raises UnboundLocalError and the rest of the finally block is skipped
Finally ==
    /\ pc = "finally"
    /\ IF camera = "unbound"
       THEN /\ pc' = "crashed"
            /\ camera' = camera
       ELSE /\ pc' = "cleanup"
            /\ camera' = "released"
    /\ UNCHANGED <<fatal, attempt, gpio, relay, updater, bot, now, last_detection_time, frame,
                   face_location, name, database, spawns, upc, uduration, urelocked, shutdown_called, botVars>>

\* hardware.cleanup(): GPIO.cleanup()
Cleanup ==
    /\ pc = "cleanup"
    /\ gpio' = "cleaned"
    /\ pc' = "shutdown_bot"
    /\ UNCHANGED <<fatal, attempt, camera, relay, updater, bot, now, last_detection_time, frame,
                   face_location, name, database, spawns, upc, uduration, urelocked, shutdown_called, botVars>>

\* telegram_bot.shutdown_bot()
ShutdownBot ==
    /\ pc = "shutdown_bot"
    /\ updater' = IF updater = "none" THEN "none" ELSE "stopped"
    /\ shutdown_called' = TRUE
    /\ pc' = "returned"
    /\ UNCHANGED <<fatal, attempt, camera, bot, gpio, relay, now, last_detection_time, frame,
                   face_location, name, database, spawns, upc, uduration, urelocked, botVars>>

\* main has ended: the interpreter exits and abandons the daemon threads
ProcessExit ==
    /\ pc \in {"returned", "crashed"}
    /\ pc' = "exited"
    /\ upc' = [u \in Callers |-> CASE upc[u] = "start" -> "killed_start"
                                     [] upc[u] = "hold" -> "killed_hold"
                                     [] OTHER -> upc[u]]
    /\ UNCHANGED <<fatal, attempt, camera, gpio, relay, updater, bot, now, last_detection_time, frame,
                   face_location, name, database, spawns, uduration, urelocked, shutdown_called, botVars>>

(* --------------------------- identity store --------------------------- *)
\* add_face_to_database(database, face_encoding, name): the two appends, then
\* save_face_database, whose write succeeds (written) or raises. The function
\* has no return statement: its result is None, which `if not success` reads
\* as false.
add_face_to_database(db, face_encoding, nm, written) ==
    [database |-> [encodings |-> Append(db.encodings, face_encoding),
                   names |-> Append(db.names, nm)],
     raised |-> ~written,
     success |-> FALSE]

\* its statements one by one, as another thread sees them:
\* face_recognition_utils.py:72  database["encodings"].append(face_encoding)
AppendEncoding(db, face_encoding) == [db EXCEPT !.encodings = Append(@, face_encoding)]
\* face_recognition_utils.py:73  database["names"].append(name)
AppendName(db, nm) == [db EXCEPT !.names = Append(@, nm)]

\* face_recognition.face_encodings on the stored image: the encoder is
\* deterministic, the image of alert a encodes to this value
ImageEncoding(path) == path % (MaxEnc + 1)

(* ---------------------- send_unknown_face_alert ----------------------- *)
\* the image main wrote for an alert: no file, an empty file, a crop in which
\* the detector finds no face, a crop in which it finds one
FileStates == {"missing", "empty", "noface", "face"}

\* a pop that removes nothing
CacheRemoveNothing(cache, id) == cache

\* face_path_cache.pop(id, None)
CacheRemove(cache, id) == [k \in (DOMAIN cache) \ {id} |-> cache[k]]
CachePut(cache, id, path) == [k \in (DOMAIN cache) \cup {id} |-> IF k = id THEN path ELSE cache[k]]

otherThanAlerts == <<mainVars, gpio, relay, database, disk, upc, uduration, urelocked,
                     callbackVars>>

\* int(time.time()): a value not before the last one read
TimeValues == clock..MaxClock

\* main.py:131: the capture loop starts the thread for the image it wrote
AlertStart(a) ==
    /\ apc[a] = "none"
    /\ \A b \in Alerts : b < a => apc[b] # "none"
    /\ \E f \in FileStates : files' = [files EXCEPT ![a] = f]
    /\ apc' = [apc EXCEPT ![a] = "check"]
    /\ UNCHANGED <<aid, aattempt, asuccess, alast, aphoto, afallback, apopped, aret, spc,
                   sremoved, face_path_cache, clock, otherThanAlerts>>

\* telegram_bot.py:199-209: the two early returns, then the cache entry
AlertInsert(a) ==
    /\ apc[a] = "check"
    /\ IF ~bot \/ files[a] = "missing"
       THEN /\ apc' = [apc EXCEPT ![a] = "returned"]
            /\ aret' = [aret EXCEPT ![a] = "False"]
            /\ UNCHANGED <<aid, face_path_cache, clock>>
       ELSE \E t \in TimeValues :
              /\ clock' = t
              /\ aid' = [aid EXCEPT ![a] = t]
              /\ face_path_cache' = CachePut(face_path_cache, t, a)
              /\ apc' = [apc EXCEPT ![a] = "try"]
              /\ aret' = aret
    /\ UNCHANGED <<files, aattempt, asuccess, alast, aphoto, afallback, apopped, spc,
                   sremoved, otherThanAlerts>>

\* a retry loop that runs one pass too many
AfterAttemptOneMore(outcome, attempt_) ==
    IF outcome = "ok" THEN [success |-> TRUE, delay |-> 0, again |-> FALSE]
    ELSE [success |-> FALSE, delay |-> RETRY_DELAY, again |-> attempt_ < RETRY_ATTEMPTS]

\* what one pass of the retry loop does with the outcome of bot.send_photo:
\* the delay it sleeps and whether the loop goes on (telegram_bot.py:237-245)
AfterAttempt(outcome, attempt_) ==
    IF outcome = "ok" THEN [success |-> TRUE, delay |-> 0, again |-> FALSE]
    ELSE IF outcome = "timeout"
    THEN [success |-> FALSE, delay |-> RETRY_DELAY * (attempt_ + 1),
          again |-> attempt_ + 1 < RETRY_ATTEMPTS]
    ELSE [success |-> FALSE, delay |-> RETRY_DELAY, again |-> attempt_ + 1 < RETRY_ATTEMPTS]

\* telegram_bot.py:223-245: one pass of the retry loop
AlertTry(a) ==
    /\ apc[a] = "try"
    /\ IF files[a] = "empty"
       THEN /\ apc' = [apc EXCEPT ![a] = "returned"]
            /\ aret' = [aret EXCEPT ![a] = "False"]
            /\ UNCHANGED <<aattempt, asuccess, alast, aphoto>>
       ELSE \E outcome \in {"ok", "timeout", "error"} :
              LET r == AfterAttempt(outcome, aattempt[a])
              IN  /\ aphoto' = [aphoto EXCEPT ![a] = @ + 1]
                  /\ asuccess' = [asuccess EXCEPT ![a] = r.success]
                  /\ alast' = [alast EXCEPT ![a] = outcome]
                  /\ aattempt' = [aattempt EXCEPT ![a] = IF r.success THEN @ ELSE @ + 1]
                  /\ apc' = [apc EXCEPT ![a] = IF r.again THEN "try" ELSE "after"]
                  /\ aret' = aret
    /\ UNCHANGED <<files, aid, afallback, apopped, spc, sremoved, face_path_cache,
                   clock, otherThanAlerts>>

\* telegram_bot.py:248-253: schedule the sweep, or clean up at once
AlertAfter(a) ==
    /\ apc[a] = "after"
    /\ IF asuccess[a]
       THEN /\ spc' = [spc EXCEPT ![a] = "sleeping"]
            /\ apc' = [apc EXCEPT ![a] = "returned"]
            /\ aret' = [aret EXCEPT ![a] = "True"]
            /\ UNCHANGED <<face_path_cache, apopped>>
       ELSE /\ face_path_cache' = CacheRemove(face_path_cache, aid[a])
            /\ apopped' = [apopped EXCEPT ![a] = aid[a] \notin DOMAIN face_path_cache']
            /\ apc' = [apc EXCEPT ![a] = "fallback"]
            /\ UNCHANGED <<spc, aret>>
    /\ UNCHANGED <<files, aid, aattempt, asuccess, alast, aphoto, afallback, sremoved,
                   clock, otherThanAlerts>>

\* telegram_bot.py:256-264: the text-only notification, then return success
AlertFallback(a) ==
    /\ apc[a] = "fallback"
    /\ afallback' = [afallback EXCEPT ![a] = @ + 1]
    /\ apc' = [apc EXCEPT ![a] = "returned"]
    /\ aret' = [aret EXCEPT ![a] = "False"]
    /\ UNCHANGED <<files, aid, aattempt, asuccess, alast, aphoto, apopped, spc, sremoved,
                   face_path_cache, clock, otherThanAlerts>>

\* the callback is between its lookup, which found id, and its pop
CallbackHolds(id) ==
    /\ cpc \in {"allow_always", "adding", "allow_once", "deny", "unlocking", "pop"}
    /\ cid = id

\* delayed_face_cache_cleanup(face_id), once its sleep is over
Sweep(a) ==
    /\ spc[a] = "sleeping"
    /\ spc' = [spc EXCEPT ![a] = "done"]
    /\ IF aid[a] \in DOMAIN face_path_cache
       THEN /\ face_path_cache' = CacheRemove(face_path_cache, aid[a])
            /\ sremoved' = [sremoved EXCEPT ![a] = TRUE]
            /\ cswept' = (cswept \/ CallbackHolds(aid[a]))
       ELSE UNCHANGED <<face_path_cache, sremoved, cswept>>
    /\ UNCHANGED <<files, apc, aid, aattempt, asuccess, alast, aphoto, afallback, apopped, aret,
                   mainVars, gpio, relay, database, disk, upc, uduration, urelocked, clock,
                   cpc, caction, cid, cpath, cname, creport, csave, cunlocks, cpopped, cstore,
                   ncallbacks>>

(* -------------------------- button_callback --------------------------- *)
Actions == {"allow_always", "allow_once", "deny"}

\* the ids on the buttons the operator has received
Delivered == {aid[a] : a \in {b \in Alerts : asuccess[b]}}

TextExpired == "Error: Face data expired or not found."
TextError == "An error occurred. Please try again."
TextDenied == "Access denied."
TextNoImage == "ERROR: Face image does not exist."
TextNoFace == "Could not detect face in image."
TextAddFailed == "Failed to add person to database."
TextAddedUnlocked == "Person added to database. Door unlocked."
TextAddedUnlockFailed == "Person added to database. Door unlock failed."
TextOnce == "Door unlocked for one-time access."
TextOnceFailed == "Failed to unlock door."
TextOnceError == "Failed to process one-time access."

\* safe_edit_caption(query, text): the caption is edited, or on TelegramError
\* a new message is sent, or that fails too; every outcome returns normally,
\* so only the text is recorded
Reported(text) == Append(creport, text)

otherThanCallback == <<mainVars, gpio, database, disk, clock, alertVars>>

\* the operator presses a button of a delivered alert: button_callback up to
\* its lookup (telegram_bot.py:91-100); a TelegramError of query.answer() goes
\* to line 121
CallbackArrives ==
    /\ cpc = "idle"
    /\ updater = "polling"
    /\ ncallbacks < MaxCallbacks
    /\ \E action \in Actions, id \in Delivered, answered \in BOOLEAN :
         /\ caction' = action
         /\ cid' = id
         /\ IF answered
            THEN /\ cpc' = "lookup"
                 /\ creport' = creport
            ELSE /\ cpc' = "return"
                 /\ creport' = Reported(TextError)
    /\ ncallbacks' = ncallbacks + 1
    /\ cstore' = <<database, disk>>
    /\ UNCHANGED <<cpath, cname, csave, cunlocks, cswept, cpopped, face_path_cache, relay,
                   upc, uduration, urelocked, otherThanCallback>>

\* telegram_bot.py:102-107: get under the lock, without removing
CallbackLookup ==
    /\ cpc = "lookup"
    /\ IF cid \in DOMAIN face_path_cache
       THEN /\ cpath' = face_path_cache[cid]
            /\ cpc' = caction
            /\ creport' = creport
       ELSE /\ creport' = Reported(TextExpired)
            /\ cpc' = "return"
            /\ cpath' = cpath
    /\ UNCHANGED <<caction, cid, cname, csave, cunlocks, cswept, cpopped, cstore, ncallbacks, face_path_cache,
                   relay, upc, uduration, urelocked, otherThanCallback>>

\* telegram_bot.py:113-114
Deny ==
    /\ cpc = "deny"
    /\ creport' = Reported(TextDenied)
    /\ cpc' = "pop"
    /\ UNCHANGED <<caction, cid, cpath, cname, csave, cunlocks, cswept, cpopped, cstore, ncallbacks, face_path_cache,
                   relay, upc, uduration, urelocked, otherThanCallback>>

\* process_allow_once: the call of hardware.unlock_door
AllowOnce ==
    /\ cpc = "allow_once"
    /\ upc' = [upc EXCEPT ![Listener] = "start"]
    /\ uduration' = [uduration EXCEPT ![Listener] = UNLOCK_DURATION]
    /\ urelocked' = [urelocked EXCEPT ![Listener] = FALSE]
    /\ cunlocks' = cunlocks + 1
    /\ cpc' = "unlocking"
    /\ UNCHANGED <<caction, cid, cpath, cname, creport, csave, cswept, cpopped, cstore, ncallbacks,
                   face_path_cache, relay, otherThanCallback>>

\* process_allow_always going on to the unlock whatever add_face_to_database did
AfterAddUnchecked(r) == "unlock"

\* where process_allow_always goes after add_face_to_database (telegram_bot.py:165-173, 183)
AfterAdd(r) ==
    IF r.raised THEN "except"
    ELSE IF ~r.success THEN "add_failed"
    ELSE "unlock"

\* process_allow_always without the test of face_locations
AllowAlwaysStepsNoDetect(path) ==
    IF files[path] = "missing" THEN "no_image"
    ELSE "add"

\* process_allow_always up to the call of add_face_to_database
\* (telegram_bot.py:149-165)
AllowAlwaysSteps(path) ==
    IF files[path] = "missing" THEN "no_image"
    ELSE IF files[path] # "face" THEN "no_face"
    ELSE "add"

\* process_allow_always from its start to the first statement of
\* add_face_to_database, when time.time() at line 162 is t
AllowAlways ==
    /\ cpc = "allow_always"
    /\ LET to == AllowAlwaysSteps(cpath)
       IN  IF to = "add"
           THEN \E t \in TimeValues :
                  /\ clock' = t
                  /\ cname' = PersonName(t)
                  /\ database' = AppendEncoding(database, ImageEncoding(cpath))
                  /\ cpc' = "adding"
                  /\ creport' = creport
           ELSE /\ creport' = Reported(IF to = "no_image" THEN TextNoImage ELSE TextNoFace)
                /\ cpc' = "pop"
                /\ UNCHANGED <<clock, cname, database>>
    /\ UNCHANGED <<caction, cid, cpath, csave, cunlocks, cswept, cpopped, cstore, ncallbacks,
                   face_path_cache, disk, relay, upc, uduration, urelocked, mainVars, gpio,
                   alertVars>>

\* the rest of add_face_to_database (the second append, then save_face_database
\* writes the file or raises) and process_allow_always up to the report or the
\* call of hardware.unlock_door (telegram_bot.py:166-173, 183-185); the image
\* of known faces written at line 170 is not part of the state
AddSave ==
    /\ cpc = "adding"
    /\ \E written \in BOOLEAN :
         LET r == add_face_to_database(database, ImageEncoding(cpath), cname, written)
             to == AfterAdd(r)
         IN  /\ database' = AppendName(database, cname)
             /\ disk' = IF written THEN database' ELSE disk
             /\ csave' = IF written THEN "saved" ELSE "failed"
             /\ IF to = "unlock"
                THEN /\ upc' = [upc EXCEPT ![Listener] = "start"]
                     /\ uduration' = [uduration EXCEPT ![Listener] = UNLOCK_DURATION]
                     /\ urelocked' = [urelocked EXCEPT ![Listener] = FALSE]
                     /\ cunlocks' = cunlocks + 1
                     /\ cpc' = "unlocking"
                     /\ creport' = creport
                ELSE /\ creport' = Reported(TextAddFailed)
                     /\ cpc' = "pop"
                     /\ UNCHANGED <<upc, uduration, urelocked, cunlocks>>
    /\ UNCHANGED <<caction, cid, cpath, cname, cswept, cpopped, cstore, ncallbacks,
                   face_path_cache, clock, relay, mainVars, gpio, alertVars>>

\* hardware.unlock_door has no return statement: callers read None, false
unlock_door_result == FALSE

\* the text process_allow_once / process_allow_always report once unlock_door
\* has returned (ended = "done") or raised
UnlockReport(action, ended) ==
    IF action = "allow_once"
    THEN IF ended \in Raised THEN TextOnceError
         ELSE IF unlock_door_result THEN TextOnce ELSE TextOnceFailed
    ELSE IF ended \in Raised THEN TextAddFailed
         ELSE IF unlock_door_result THEN TextAddedUnlocked ELSE TextAddedUnlockFailed

\* telegram_bot.py:174-181 and 191-195: unlock_door is over, report
UnlockReturns ==
    /\ cpc = "unlocking"
    /\ upc[Listener] \in {"done"} \cup Raised
    /\ creport' = Reported(UnlockReport(caction, upc[Listener]))
    /\ upc' = [upc EXCEPT ![Listener] = "none"]
    /\ cpc' = "pop"
    /\ UNCHANGED <<caction, cid, cpath, cname, csave, cunlocks, cswept, cpopped, cstore, ncallbacks, face_path_cache,
                   relay, uduration, urelocked, otherThanCallback>>

\* telegram_bot.py:116-117
CallbackPop ==
    /\ cpc = "pop"
    /\ face_path_cache' = CacheRemove(face_path_cache, cid)
    /\ cpopped' = (cid \notin DOMAIN face_path_cache')
    /\ cpc' = "return"
    /\ UNCHANGED <<caction, cid, cpath, cname, creport, csave, cunlocks, cswept, cstore, ncallbacks,
                   relay, upc, uduration, urelocked, otherThanCallback>>

\* button_callback returns and its locals are gone; the listener waits for the
\* next button press
CallbackReturn ==
    /\ cpc = "return"
    /\ cpc' = "idle"
    /\ creport' = <<>>
    /\ csave' = "none"
    /\ cunlocks' = 0
    /\ cswept' = FALSE
    /\ cpopped' = FALSE
    /\ cpath' = 0
    /\ cname' = None
    /\ caction' = "deny"
    /\ cid' = 0
    /\ cstore' = <<database, disk>>
    /\ UNCHANGED <<ncallbacks, face_path_cache,
                   relay, upc, uduration, urelocked, otherThanCallback>>

(* --------------------------- specification ---------------------------- *)
MainInit ==
    /\ fatal = "none"
    /\ shutdown_called = FALSE
    /\ attempt = 0
    /\ now = StartTime
    /\ last_detection_time = 0
    /\ frame = [faces |-> <<>>, encodable |-> FALSE, enc |-> 0]
    /\ face_location = NoLocation
    /\ name = None
    /\ disk = database
    /\ spawns = <<>>
    /\ relay = "Locked"
    /\ upc = [u \in Callers |-> "none"]
    /\ uduration = [u \in Callers |-> 0]
    /\ urelocked = [u \in Callers |-> FALSE]

\* no button press has arrived
CallbackIdle ==
    /\ cpc = "idle"
    /\ caction = "deny"
    /\ cid = 0
    /\ cpath = 0
    /\ cname = None
    /\ creport = <<>>
    /\ csave = "none"
    /\ cunlocks = 0
    /\ cswept = FALSE
    /\ cpopped = FALSE
    /\ cstore = <<database, disk>>
    /\ ncallbacks = 0

BotIdle ==
    /\ clock = 0
    /\ face_path_cache = <<>>
    /\ files = [a \in Alerts |-> "missing"]
    /\ apc = [a \in Alerts |-> "none"]
    /\ aid = [a \in Alerts |-> 0]
    /\ aattempt = [a \in Alerts |-> 0]
    /\ asuccess = [a \in Alerts |-> FALSE]
    /\ alast = [a \in Alerts |-> "none"]
    /\ aphoto = [a \in Alerts |-> 0]
    /\ afallback = [a \in Alerts |-> 0]
    /\ apopped = [a \in Alerts |-> FALSE]
    /\ aret = [a \in Alerts |-> "none"]
    /\ spc = [a \in Alerts |-> "none"]
    /\ sremoved = [a \in Alerts |-> FALSE]
    /\ CallbackIdle

\* the program starts: main is about to call hardware.setup_gpio()
Init ==
    /\ database \in StoredDatabases
    /\ MainInit
    /\ BotIdle
    /\ pc = "setup_gpio"
    /\ camera = "unbound"
    /\ gpio = "unset"
    /\ updater = "none"
    /\ bot = FALSE

Next ==
    \/ SetupGpio
    \/ CameraAttempt
    \/ CameraExhausted
    \/ InitBot
    \/ ReadFrame
    \/ ReadBad
    \/ CooldownDrop
    \/ Detect
    \/ NoFace
    \/ StartUnlock
    \/ StartAlert
    \/ LoopException
    \/ Interrupt
    \/ Finally
    \/ Cleanup
    \/ ShutdownBot
    \/ ProcessExit
    \/ \E u \in LoopCallers : UnlockLow(u)
    \/ \E u \in LoopCallers : UnlockHigh(u)

Spec == Init /\ [][Next]_vars

\* the main thread keeps running: a thread it is about to start gets started.
\* Nothing is assumed about the threads it started: a hold or a delivery may
\* go on for ever
LoopSpec == Init /\ [][Next]_vars /\ WF_vars(StartUnlock) /\ WF_vars(StartAlert)

\* the approval workflow while main is in its capture loop
BotInit ==
    /\ database = NewDatabase
    /\ MainInit
    /\ BotIdle
    /\ pc = "read"
    /\ camera = "open"
    /\ gpio = "ready"
    /\ \E b \in BotStates :
         /\ bot = (b # "none")
         /\ updater = IF b = "polling" THEN "polling" ELSE "none"

BotNext ==
    \/ \E a \in Alerts : AlertStart(a)
    \/ \E a \in Alerts : AlertInsert(a)
    \/ \E a \in Alerts : AlertTry(a)
    \/ \E a \in Alerts : AlertAfter(a)
    \/ \E a \in Alerts : AlertFallback(a)
    \/ \E a \in Alerts : Sweep(a)
    \/ CallbackArrives
    \/ CallbackLookup
    \/ Deny
    \/ AllowOnce
    \/ AllowAlways
    \/ AddSave
    \/ UnlockLow(Listener)
    \/ UnlockHigh(Listener)
    \/ UnlockReturns
    \/ CallbackPop
    \/ CallbackReturn

BotSpec == BotInit /\ [][BotNext]_vars

\* the capture loop and the callback listener side by side: the first alert
\* has been delivered at time 0 and its sweep sleeps, the operator has not
\* answered yet, main is in its loop
StoreInit ==
    /\ database = NewDatabase
    /\ MainInit
    /\ CallbackIdle
    /\ pc = "read"
    /\ camera = "open"
    /\ gpio = "ready"
    /\ bot = TRUE
    /\ updater = "polling"
    /\ clock = 0
    /\ face_path_cache = CachePut(<<>>, 0, 1)
    /\ files \in {f \in [Alerts -> FileStates] :
                    /\ f[1] \in {"noface", "face"}
                    /\ \A a \in Alerts \ {1} : f[a] = "missing"}
    /\ apc = [a \in Alerts |-> IF a = 1 THEN "returned" ELSE "none"]
    /\ aid = [a \in Alerts |-> 0]
    /\ aattempt = [a \in Alerts |-> 0]
    /\ asuccess = [a \in Alerts |-> a = 1]
    /\ alast = [a \in Alerts |-> IF a = 1 THEN "ok" ELSE "none"]
    /\ aphoto = [a \in Alerts |-> IF a = 1 THEN 1 ELSE 0]
    /\ afallback = [a \in Alerts |-> 0]
    /\ apopped = [a \in Alerts |-> FALSE]
    /\ aret = [a \in Alerts |-> IF a = 1 THEN "True" ELSE "none"]
    /\ spc = [a \in Alerts |-> IF a = 1 THEN "sleeping" ELSE "none"]
    /\ sremoved = [a \in Alerts |-> FALSE]

StoreNext ==
    \/ ReadFrame
    \/ ReadBad
    \/ CooldownDrop
    \/ Detect
    \/ NoFace
    \/ StartUnlock
    \/ StartAlert
    \/ CallbackArrives
    \/ CallbackLookup
    \/ Deny
    \/ AllowOnce
    \/ AllowAlways
    \/ AddSave
    \/ \E u \in Callers : UnlockLow(u)
    \/ \E u \in Callers : UnlockHigh(u)
    \/ UnlockReturns
    \/ CallbackPop
    \/ CallbackReturn

StoreSpec == StoreInit /\ [][StoreNext]_vars

(* ------------------------------ claims -------------------------------- *)

\* C1: a cycle in which process_frame found a region but could not extract an
\* encoding (name None) starts the alert thread and never an unlock thread.
C1_UndecodableGoesToApproval ==
    \A i \in 1..Len(spawns) :
        spawns[i].outcome = "undecodable" => spawns[i].kind = "alert"

\* C2: when the store holds a name whose encoding is closer than the threshold
\* to the frame's encoding, process_frame returns such a name (and the loop
\* then starts unlock_door).
CloseNames(fr, db) ==
    {db.names[i] : i \in {k \in 1..Len(db.names) :
        face_distance(db.encodings[k], fr.enc) < FACE_CONFIDENCE_THRESHOLD}}
C2_MatchReturnsStoredName ==
    (pc = "dispatch" /\ frame.faces # <<>> /\ frame.encodable
      /\ CloseNames(frame, database) # {})
    => (name \in CloseNames(frame, database)
        /\ Dispatch(face_location, name) = "unlock")

\* C3: in an AllowAlways resolution unlock_door is called only after the durable
\* write of add_face_to_database succeeded, and a failed write means no
\* unlock_door call for that decision.
C3_PersistBeforeUnlock ==
    caction = "allow_always" =>
        /\ cunlocks > 0 => csave = "saved"
        /\ csave = "failed" => cunlocks = 0
C3_Witness ==
    cpc = "return" /\ caction = "allow_always" /\ csave = "failed" /\ cunlocks = 0

\* C4: an AllowAlways resolution whose identity was persisted calls unlock_door
\* and reports the combined outcome, never that adding failed.
C4_PersistedIsReportedAdded ==
    (cpc = "return" /\ caction = "allow_always" /\ csave = "saved")
    => (cunlocks = 1
        /\ creport \in {<<TextAddedUnlocked>>, <<TextAddedUnlockFailed>>})

\* C5: every unlock_door call that set the relay to Unlocked has set it back to
\* Locked when the call is over, however the hold ended.
C5_EveryUnlockRelocks ==
    \A u \in Callers :
        upc[u] \in {"done", "raised_high", "killed_hold"} => urelocked[u]

\* C6: two cycles that found a region and started a thread began at least the
\* cooldown window (2 s = 20 tenths) apart, and process_frame is never called
\* on a frame read inside the window of a cycle that started a thread.
C6_Cooldown ==
    /\ \A i, j \in 1..Len(spawns) : i < j => spawns[j].at - spawns[i].at >= 20
    /\ pc = "dispatch" =>
         \A i \in 1..Len(spawns) : last_detection_time - spawns[i].at >= 20
C6_Witness ==
    /\ Len(spawns) >= 2
    /\ spawns[2].at - spawns[1].at >= 20

\* C7: a callback whose entry was removed by the sweep after its lookup does
\* nothing: no unlock_door call, no write to the identity store.
C7_SweptCallbackDoesNothing ==
    [][(cswept /\ cpc # "return")
        => (cunlocks' = cunlocks /\ database' = database /\ disk' = disk)]_vars

\* C8: no alert makes more than 3 photo attempts, and an alert whose 3 attempts
\* all failed has, when it returns, removed its id from the cache, attempted
\* the text fallback once, scheduled no sweep and returned False.
C8_ExhaustedRetries ==
    \A a \in Alerts :
        /\ aphoto[a] <= 3
        /\ (apc[a] = "returned" /\ aphoto[a] = 3 /\ ~asuccess[a])
           => /\ apopped[a]
              /\ afallback[a] = 1
              /\ spc[a] = "none"
              /\ aret[a] = "False"
C8_Witness ==
    \E a \in Alerts : apc[a] = "returned" /\ aphoto[a] = 3 /\ ~asuccess[a]

\* C9: an AllowAlways decision on a present id whose image shows no face reports
\* the failure, leaves the store unchanged in memory and on disk, calls
\* unlock_door not at all and removes the pending entry.
NoFaceAllowAlways ==
    /\ cpc = "return"
    /\ caction = "allow_always"
    /\ cpath \in Alerts
    /\ files[cpath] = "noface"
C9_NoFaceAllowAlways ==
    NoFaceAllowAlways
    => /\ creport = <<TextNoFace>>
       /\ <<database, disk>> = cstore
       /\ csave = "none"
       /\ cunlocks = 0
       /\ cpopped
C9_Witness == NoFaceAllowAlways

\* C10: whichever fatal condition ended main, hardware.cleanup and
\* telegram_bot.shutdown_bot have both run when main is over.
C10_FatalEndsInFullShutdown ==
    (pc \in {"returned", "crashed", "exited"} /\ fatal # "none")
    => (gpio = "cleaned" /\ shutdown_called)

\* C11: when the process has exited after a fatal error or an interrupt (and the
\* finally block got past its camera test), the relay is Locked and the GPIO
\* resources are released, also when an unlock_door call was inside its hold
\* when the shutdown ran.
C11_ExitLocked ==
    (pc = "exited" /\ fatal # "none" /\ camera = "released")
    => (relay = "Locked" /\ gpio = "cleaned")

\* C12: add_face_to_database is all-or-nothing: when its durable write failed,
\* the store in memory has the names and encodings it had before the call.
C12_AddAllOrNothing ==
    csave = "failed" => database = cstore[1]

C14_AllowOnceReportsActuation ==
    (cpc = "return" /\ caction = "allow_once" /\ cpath # 0)
    => /\ cunlocks = 1
       /\ <<database, disk>> = cstore
       /\ urelocked[Listener] => creport = <<TextOnce>>
       /\ creport = <<TextOnceFailed>> => ~urelocked[Listener]

\* C15: after a photo attempt that failed with an error other than a timeout,
\* the alert makes no further photo attempt.
C15_NonTransientAborts ==
    [][\A a \in Alerts : alast[a] = "error" => aphoto'[a] = aphoto[a]]_vars

\* C16: the id a send_unknown_face_alert call inserts is not already present in
\* face_path_cache.
C16_FreshId ==
    [][\A a \in Alerts :
        (apc[a] = "check" /\ apc'[a] = "try") => aid'[a] \notin DOMAIN face_path_cache]_vars

\* C17: no send_unknown_face_alert call returns leaving its entry in the cache
\* with neither a delivered notification nor a scheduled sweep.
C17_NoOrphanEntry ==
    \A a \in Alerts :
        (/\ apc[a] = "returned"
         /\ bot /\ files[a] # "missing"
         /\ aid[a] \in DOMAIN face_path_cache
         /\ face_path_cache[aid[a]] = a)
        => (asuccess[a] /\ spc[a] # "none")

\* C18: a cycle in which process_frame finds no face region leaves
\* last_detection_time as it was before the cycle.
C18_NoFaceKeepsCooldown ==
    [][(pc = "gate" /\ pc' = "dispatch" /\ face_location' = NoLocation)
        => last_detection_time' = last_detection_time]_vars

\* C19: while an unlock_door call is inside its hold the relay is Unlocked: no
\* other call sets it to Locked.
C19_HoldKeepsUnlocked ==
    \A u \in Callers : upc[u] = "hold" => relay = "Unlocked"

\* C20: a write to the identity store by the callback listener never overlaps
\* a read of the store by the capture loop: process_frame does not run while
\* add_face_to_database is between its first append and the end of its save,
\* so the store it reads has as many names as encodings.
C20_StoreWriteExcludesRead ==
    [][(pc = "gate" /\ pc' = "dispatch")
        => (cpc # "adding" /\ Len(database.encodings) = Len(database.names))]_vars

\* C21: within one unknown-face event the image is written first, then the
\* notification is dispatched, then the pending entry is inserted: when
\* send_unknown_face_alert inserts its entry, the image exists and a
\* bot.send_photo call for it has been made.
C21_InsertAfterDispatch ==
    [][\A a \in Alerts :
        (apc[a] = "check" /\ apc'[a] = "try")
        => (files[a] # "missing" /\ aphoto[a] > 0)]_vars

\* C22: the capture loop never waits for a relay hold or for a notification
\* delivery: a cycle that found a face region goes on to start its thread and
\* arrives at its next camera.read() (unless a fatal condition ends the loop),
\* also when the threads started never finish.
C22_LoopNeverBlocks ==
    (pc = "dispatch" /\ Dispatch(face_location, name) # "none")
    ~> (pc = "read" \/ fatal # "none")
C22_Witness ==
    /\ pc = "gate"
    /\ spawns # <<>>
    /\ spawns[1].kind = "unlock"
    /\ upc[1] = "hold"
    /\ now >= spawns[1].at + cooldown_period

====
